---- MODULE Spec2Model ----
(***************************************************************************)
(* Model of clients/pkg/promtail/client/wal.go: the WAL interface with its *)
(* two implementations (noopWAL, walWrapper) and the resettingPool of      *)
(* records, entry slices and byte buffers.                                 *)
(*                                                                         *)
(* A Go slice is modelled as [id, data, cap]: id names the backing array,  *)
(* data is the visible content (its length is the slice's len) and cap the *)
(* capacity.  An error is [msg, cause]; the nil error is Nil.              *)
(***************************************************************************)
EXTENDS Integers, Sequences, FiniteSets, TLC

\* ---------------------------------------------------------------- bounds
\* Largest segment number the engine hands out in the model.
MaxSeg == 2
\* Longest engine log (number of accepted appends) the model explores.
MaxLog == 2

\* Largest number of live pool instances (idle or borrowed) of all kinds.
MaxLive == 2

\* ------------------------------------------------------- program constants
\* make([]logproto.Entry, 0, 512)
EntriesCap == 512
\* make([]byte, 0, 1<<10)
BytesCap == 1024

Threads == {"t1", "t2"}

\* the caller of the WAL interface: its calls are synchronous (one at a time)
Callers == {"t1"}

\* ----------------------------------------------------------------- errors
Nil == [msg |-> "", cause |-> ""]

\* errors of the operating system and of the engine, opaque to this code
OsErrs == {"EIO"}
EngineErrs == {[msg |-> "wlog: write failed", cause |-> ""]}

\* fmt.Errorf(msg) without a verb: a new error that wraps nothing
Errorf(msg) == [msg |-> msg, cause |-> ""]
\* fmt.Errorf(msg + ": %w", err): a new error whose Unwrap is err
ErrorfW(msg, oserr) == [msg |-> msg, cause |-> oserr]

\* ------------------------------------------------------------- file names
\* A file name is a sequence of one-character strings.
Digits == <<"0", "1", "2", "3", "4", "5", "6", "7", "8", "9">>

IsDigit(c) == \E i \in 1..10 : Digits[i] = c

DigitVal(c) == (CHOOSE i \in 1..10 : Digits[i] = c) - 1

\* byte value of a character, the order os.ReadDir sorts names by
CharCode(c) ==
  IF c = "+" THEN 43
  ELSE IF c = "-" THEN 45
  ELSE IF c = "." THEN 46
  ELSE IF IsDigit(c) THEN 48 + DigitVal(c)
  ELSE 97

RECURSIVE DigitsVal(_)
DigitsVal(s) ==
  IF s = <<>> THEN 0
  ELSE 10 * DigitsVal(SubSeq(s, 1, Len(s) - 1)) + DigitVal(s[Len(s)])

AllDigits(s) == s # <<>> /\ \A i \in 1..Len(s) : IsDigit(s[i])

\* strconv.Atoi: an optional sign, then one or more decimal digits
Atoi(s) ==
  IF s # <<>> /\ s[1] \in {"+", "-"}
  THEN IF AllDigits(Tail(s))
       THEN [ok |-> TRUE,
             val |-> IF s[1] = "-" THEN 0 - DigitsVal(Tail(s)) ELSE DigitsVal(Tail(s))]
       ELSE [ok |-> FALSE, val |-> 0]
  ELSE IF AllDigits(s)
       THEN [ok |-> TRUE, val |-> DigitsVal(s)]
       ELSE [ok |-> FALSE, val |-> 0]

\* the engine's name of segment n: its decimal string
RECURSIVE SegmentName(_)
SegmentName(n) ==
  IF n < 10 THEN <<Digits[n + 1]>>
  ELSE Append(SegmentName(n \div 10), Digits[(n % 10) + 1])

\* byte-wise lexicographic order of two names
RECURSIVE NameLess(_, _)
NameLess(a, b) ==
  IF a = <<>> THEN b # <<>>
  ELSE IF b = <<>> THEN FALSE
  ELSE IF a[1] # b[1] THEN CharCode(a[1]) < CharCode(b[1])
  ELSE NameLess(Tail(a), Tail(b))

\* os.ReadDir: the entries of the directory, sorted by file name
RECURSIVE ReadDir(_)
ReadDir(entries) ==
  IF entries = {} THEN <<>>
  ELSE LET first == CHOOSE n \in entries : \A m \in entries \ {n} : NameLess(n, m)
       IN  <<first>> \o ReadDir(entries \ {first})

\* names other programs may create in the WAL directory
ForeignNames == {<<"a">>, <<".", "a">>, <<"0", "1">>, <<"-", "1">>}

\* ------------------------------------------------------------------ paths
\* A path is the sequence of its elements.  path.Join drops empty elements.
RECURSIVE PathJoin(_)
PathJoin(elems) ==
  IF elems = <<>> THEN <<>>
  ELSE IF Head(elems) = "" THEN PathJoin(Tail(elems))
  ELSE <<Head(elems)>> \o PathJoin(Tail(elems))

CfgDirs == {<<"tmp", "wal">>}
ClientNames == {"agent"}
TenantIDs == {"t1"}

\* ---------------------------------------------------------------- records
\* ingester.WALRecord as Log reads it; isNil marks the nil pointer.
NilRecord == [isNil |-> TRUE, Series |-> <<>>, RefEntries |-> <<>>]

MkRecord(s, e) == [isNil |-> FALSE, Series |-> s, RefEntries |-> e]

SeriesLists == {<<>>, <<"s1">>}
EntryLists == {<<>>, <<"e1">>}

Records == {NilRecord} \cup {MkRecord(s, e) : s \in SeriesLists, e \in EntryLists}

\* ingester.CurrentEntriesRec, the record type tag of the entries payload
CurrentEntriesRec == "WALRecordEntriesV2"

\* ----------------------------------------------------------------- slices
\* the nil slice, and the value of a local that holds nothing
NoSlice == [id |-> 0, data |-> <<>>, cap |-> 0]

\* s[:0]: same backing array and capacity, length zero
Truncate(s) == [s EXCEPT !.data = <<>>]

Max(a, b) == IF a > b THEN a ELSE b

\* append(s, items...): in place while the capacity suffices, otherwise into a
\* new backing array (fresh) of at least doubled capacity
GoAppend(s, items, fresh) ==
  IF Len(s.data) + Len(items) <= s.cap
  THEN [s EXCEPT !.data = s.data \o items]
  ELSE [id |-> fresh, data |-> s.data \o items,
        cap |-> Max(2 * s.cap, Len(s.data) + Len(items))]

\* the pooled record container: two slices behind one pointer
NoRec == [id |-> 0, Series |-> <<>>, capS |-> 0, RefEntries |-> <<>>, capE |-> 0]

VARIABLES
  variant,    \* which WAL newWAL returned: "unset", "noop", "wrapper", "failed"
  walDir,     \* wlog.WL.Dir(): the directory of the engine, a path
  closed,     \* the engine has been closed
  segment,    \* the engine's current segment number
  walLog,     \* the payloads the engine has accepted, in order
  dirExists,  \* the WAL directory exists on disk
  files,      \* the names of the entries of the WAL directory
  rPool,      \* recordPool.rPool: the idle record containers
  ePool,      \* recordPool.ePool: the idle entry slices
  bPool,      \* recordPool.bPool: the idle byte slices
  pc,         \* per thread: where its Log call stands
  rec,        \* per thread: the record argument of its Log call
  buf,        \* per thread: the local buf of its Log call
  calls,      \* per thread: the engine calls its Log call has made
  retErr,     \* per thread: the error its Log call is returning
  held,       \* per thread: the pool instances a pool user holds
  last,       \* the call of the WAL interface that has just returned
  issued      \* history: the numbers successful NextSegment calls have returned

vars == <<variant, walDir, closed, segment, walLog, dirExists, files,
          rPool, ePool, bPool, pc, rec, buf, calls, retErr, held, last, issued>>

engineVars == <<closed, segment, walLog>>
fsVars == <<dirExists, files>>
walVars == <<variant, walDir, issued>>
poolVars == <<rPool, ePool, bPool>>
logVars == <<pc, rec, buf, calls, retErr>>

\* a completed call: its operation, arguments, results and what it called
\* (trace: the calls it made to the engine and to the file system, in order)
Returned(op, r, seg, err, num, dir, trace) ==
  [op |-> op, rec |-> r, seg |-> seg, err |-> err, num |-> num, dir |-> dir,
   trace |-> trace]

\* an error of the operating system as a Go error
OsError(e) == IF e = "" THEN Nil ELSE [msg |-> e, cause |-> ""]

EngineCall(fn, arg, err) == [sys |-> "engine", fn |-> fn, arg |-> arg, err |-> err]
FsCall(fn, name, e) == [sys |-> "fs", fn |-> fn, arg |-> name, err |-> OsError(e)]

\* the value of last while no call has returned yet or a call is running
NoCall == Returned("none", NilRecord, 0, Nil, 0, <<>>, <<>>)

\* ids of the backing arrays of one kind that are reachable: idle or held
LiveIds(pool, holders) == {x.id : x \in pool} \cup (holders \ {0})

\* names for the live arrays of a kind, and one to grow into
ArrayIds == 1..(MaxLive + 1)

\* the name of a newly allocated array: one that names no live array
FreshId(pool, holders) ==
  LET free == ArrayIds \ LiveIds(pool, holders)
  IN  CHOOSE i \in free : \A j \in free : i <= j

BytesHolders == {buf[t].id : t \in Threads} \cup {held[t].b.id : t \in Threads}
EntriesHolders == {held[t].e.id : t \in Threads}
RecordHolders == {held[t].r.id : t \in Threads}

\* the number of live pool instances of all kinds
LiveCount ==
  Cardinality(LiveIds(rPool, RecordHolders)) + Cardinality(LiveIds(ePool, EntriesHolders))
    + Cardinality(LiveIds(bPool, BytesHolders))

\* sync.Pool.Get: removes and returns some idle item, or New() when there is
\* none.  (Get may also pass over idle items; PoolEvict, which drops them, gives
\* the same results to the caller.)  New() waits for room in the model.
PoolGet(pool, new) ==
  IF pool = {}
  THEN IF LiveCount < MaxLive THEN {[item |-> new, pool |-> pool]} ELSE {}
  ELSE {[item |-> x, pool |-> pool \ {x}] : x \in pool}

\* sync.Pool.Put
PoolPut(pool, x) == pool \cup {x}

\* lines 205-219: the New functions of the three pools
NewRecord(id) == [id |-> id, Series |-> <<>>, capS |-> 0, RefEntries |-> <<>>, capE |-> 0]
NewEntries(id) == [id |-> id, data |-> <<>>, cap |-> EntriesCap]
NewBytes(id) == [id |-> id, data |-> <<>>, cap |-> BytesCap]

\* ----------------------------------------------------------- resettingPool
\* WALRecord.Reset: both slices cut to length zero, their capacity kept
Reset(r) == [r EXCEPT !.Series = <<>>, !.RefEntries = <<>>]

\* lines 177-181 without line 179
GetRecordNoReset == PoolGet(rPool, NewRecord(FreshId(rPool, RecordHolders)))

\* lines 177-181: the results GetRecord may have, each with the pool it leaves
GetRecord ==
  {[item |-> Reset(g.item), pool |-> g.pool] :
     g \in PoolGet(rPool, NewRecord(FreshId(rPool, RecordHolders)))}

\* lines 183-185: the pool PutRecord(r) leaves
PutRecord(r) == PoolPut(rPool, r)

\* lines 187-189
GetEntries == PoolGet(ePool, NewEntries(FreshId(ePool, EntriesHolders)))

\* lines 191-193
PutEntries(es) == PoolPut(ePool, Truncate(es))

\* lines 195-197
GetBytes == PoolGet(bPool, NewBytes(FreshId(bPool, BytesHolders)))

\* lines 199-201 with b in place of b[:0]
PutBytesNoTruncate(b) == PoolPut(bPool, b)

\* lines 199-201
PutBytes(b) == PoolPut(bPool, Truncate(b))

Init ==
  /\ variant = "unset"
  /\ walDir = <<>>
  /\ closed = FALSE
  /\ segment = 0
  /\ walLog = <<>>
  /\ dirExists = FALSE
  /\ files = {}
  /\ rPool = {}
  /\ ePool = {}
  /\ bPool = {}
  /\ pc = [t \in Threads |-> "idle"]
  /\ rec = [t \in Threads |-> NilRecord]
  /\ buf = [t \in Threads |-> NoSlice]
  /\ calls = [t \in Threads |-> <<>>]
  /\ retErr = [t \in Threads |-> Nil]
  /\ held = [t \in Threads |-> [r |-> NoRec, e |-> NoSlice, b |-> NoSlice]]
  /\ last = NoCall
  /\ issued = {}

\* lines 67-85 with tenantID and clientName swapped at line 74
newWALTenantFirst(enabled, cfgDir, clientName, tenantID) ==
  /\ variant = "unset"
  /\ IF ~enabled
     THEN /\ variant' = "noop"
          /\ last' = Returned("newWAL", NilRecord, 0, Nil, 0, <<>>, <<>>)
          /\ UNCHANGED <<walDir, segment, fsVars>>
     ELSE LET dir == PathJoin(cfgDir \o <<tenantID, clientName>>) IN
          \E err \in {Nil} \cup EngineErrs :
            /\ last' = Returned("newWAL", NilRecord, 0, err, 0, dir,
                                <<EngineCall("NewSize", <<>>, err)>>)
            /\ IF err = Nil
               THEN /\ variant' = "wrapper"
                    /\ walDir' = dir
                    /\ segment' = 0
                    /\ dirExists' = TRUE
                    /\ files' = {SegmentName(0)}
               ELSE /\ variant' = "failed"
                    /\ dirExists' \in BOOLEAN
                    /\ UNCHANGED <<walDir, segment, files>>
  /\ UNCHANGED <<closed, walLog, poolVars, logVars, held, issued>>

\* ------------------------------------------------------------------ newWAL
\* wlog.NewSize on dir: creates the directory and its first segment, or fails
\* and leaves behind whatever it had created
newWAL(enabled, cfgDir, clientName, tenantID) ==
  /\ variant = "unset"
  /\ IF ~enabled
     THEN /\ variant' = "noop"
          /\ last' = Returned("newWAL", NilRecord, 0, Nil, 0, <<>>, <<>>)
          /\ UNCHANGED <<walDir, segment, fsVars>>
     ELSE LET dir == PathJoin(cfgDir \o <<clientName, tenantID>>) IN
          \E err \in {Nil} \cup EngineErrs :
            /\ last' = Returned("newWAL", NilRecord, 0, err, 0, dir,
                                <<EngineCall("NewSize", <<>>, err)>>)
            /\ IF err = Nil
               THEN /\ variant' = "wrapper"
                    /\ walDir' = dir
                    /\ segment' = 0
                    /\ dirExists' = TRUE
                    /\ files' = {SegmentName(0)}
               ELSE /\ variant' = "failed"
                    /\ dirExists' \in BOOLEAN
                    /\ UNCHANGED <<walDir, segment, files>>
  /\ UNCHANGED <<closed, walLog, poolVars, logVars, held, issued>>

\* --------------------------------------------------------------- noopWAL
noopLog(t, r) ==
  /\ variant = "noop"
  /\ pc[t] = "idle"
  /\ last' = Returned("Log", r, 0, Nil, 0, <<>>, <<>>)
  /\ UNCHANGED <<walVars, engineVars, fsVars, poolVars, logVars, held>>

noopDelete(t) ==
  /\ variant = "noop"
  /\ pc[t] = "idle"
  /\ last' = Returned("Delete", NilRecord, 0, Nil, 0, <<>>, <<>>)
  /\ UNCHANGED <<walVars, engineVars, fsVars, poolVars, logVars, held>>

noopSync(t) ==
  /\ variant = "noop"
  /\ pc[t] = "idle"
  /\ last' = Returned("Sync", NilRecord, 0, Nil, 0, <<>>, <<>>)
  /\ UNCHANGED <<walVars, engineVars, fsVars, poolVars, logVars, held>>

noopDir(t) ==
  /\ variant = "noop"
  /\ pc[t] = "idle"
  /\ last' = Returned("Dir", NilRecord, 0, Nil, 0, <<>>, <<>>)
  /\ UNCHANGED <<walVars, engineVars, fsVars, poolVars, logVars, held>>

\* lines 54-56 with the "segment not found" of line 158 as the result
noopDeleteSegmentNotFound(t, segmentNum) ==
  /\ variant = "noop"
  /\ pc[t] = "idle"
  /\ last' = Returned("DeleteSegment", NilRecord, segmentNum,
                      Errorf("segment not found"), 0, <<>>, <<>>)
  /\ UNCHANGED <<walVars, engineVars, fsVars, poolVars, logVars, held>>

noopDeleteSegment(t, segmentNum) ==
  /\ variant = "noop"
  /\ pc[t] = "idle"
  /\ last' = Returned("DeleteSegment", NilRecord, segmentNum, Nil, 0, <<>>, <<>>)
  /\ UNCHANGED <<walVars, engineVars, fsVars, poolVars, logVars, held>>

noopNextSegment(t) ==
  /\ variant = "noop"
  /\ pc[t] = "idle"
  /\ last' = Returned("NextSegment", NilRecord, 0, Nil, 0, <<>>, <<>>)
  /\ issued' = issued \cup {0}
  /\ UNCHANGED <<variant, walDir, engineVars, fsVars, poolVars, logVars, held>>

\* ---------------------------------------------------------- walWrapper.Log
\* WALRecord.EncodeSeries(b): appends the series payload to b
EncodeSeries(r, b, fresh) == GoAppend(b, <<"series">> \o r.Series, fresh)

\* WALRecord.EncodeEntries(version, b): appends the entries payload to b
EncodeEntries(version, r, b, fresh) == GoAppend(b, <<version>> \o r.RefEntries, fresh)

SeriesPayload(r) == <<"series">> \o r.Series
EntriesPayload(r) == <<CurrentEntriesRec>> \o r.RefEntries

\* line 101 without its length test: only the nil record returns at once
IsEmptyRecordNilOnly(r) == r.isNil

\* line 101: the record makes Log return at once
IsEmptyRecord(r) == r.isNil \/ (Len(r.Series) = 0 /\ Len(r.RefEntries) = 0)

\* lines 112-118 left out: Log starts at the test of line 119
FirstPayloadEntries(r) == IF Len(r.RefEntries) > 0 THEN "entries" ELSE "return"

\* lines 112 and 119: where Log goes after line 109
FirstPayload(r) ==
  IF Len(r.Series) > 0 THEN "series"
  ELSE IF Len(r.RefEntries) > 0 THEN "entries" ELSE "return"

\* lines 114-116 left out: a failed series append does not end the call
AfterSeriesNoReturn(r, err) == IF Len(r.RefEntries) > 0 THEN "entries" ELSE "return"

\* lines 114-119: where Log goes once the series append has returned err
AfterSeries(r, err) ==
  IF err # Nil THEN "return"
  ELSE IF Len(r.RefEntries) > 0 THEN "entries" ELSE "return"

\* line 117: buf after the series append has returned err
SeriesBuf(b, err) == IF err # Nil THEN b ELSE Truncate(b)

\* the appends a Log call on r has yet to make when it stands at p
Pending(r, p) ==
  IF p = "series" THEN 1 + (IF Len(r.RefEntries) > 0 THEN 1 ELSE 0)
  ELSE IF p = "entries" THEN 1
  ELSE 0

RECURSIVE PendingAll(_)
PendingAll(ts) ==
  IF ts = {} THEN 0
  ELSE LET u == CHOOSE u \in ts : TRUE
       IN  Pending(rec[u], pc[u]) + PendingAll(ts \ {u})

\* room in the model's engine log for every append of the calls under way and
\* of a new call on r
LogRoom(r) == Len(walLog) + PendingAll(Threads) + Pending(r, FirstPayload(r)) <= MaxLog

\* lines 100-109: the empty-record return, or GetBytes()[:0] and the defer
LogEnter(t, r) ==
  /\ variant = "wrapper"
  /\ pc[t] = "idle"
  /\ IF IsEmptyRecord(r)
     THEN /\ last' = Returned("Log", r, 0, Nil, 0, <<>>, <<>>)
          /\ UNCHANGED <<bPool, logVars>>
     ELSE /\ LogRoom(r)
          /\ \E g \in GetBytes :
               /\ bPool' = g.pool
               /\ buf' = [buf EXCEPT ![t] = Truncate(g.item)]
          /\ pc' = [pc EXCEPT ![t] = FirstPayload(r)]
          /\ rec' = [rec EXCEPT ![t] = r]
          /\ calls' = [calls EXCEPT ![t] = <<>>]
          /\ last' = NoCall
          /\ UNCHANGED retErr
  /\ UNCHANGED <<walVars, engineVars, fsVars, rPool, ePool, held>>

\* lines 112-118 with PutBytes(buf) in place of buf = buf[:0] at line 117
LogSeriesEarlyPut(t) ==
  /\ pc[t] = "series"
  /\ LET b == EncodeSeries(rec[t], buf[t], FreshId(bPool, BytesHolders)) IN
     \E err \in {Nil} \cup EngineErrs :
       /\ calls' = [calls EXCEPT ![t] = Append(@, EngineCall("Log", b.data, err))]
       /\ walLog' = IF err = Nil THEN Append(walLog, b.data) ELSE walLog
       /\ bPool' = IF err = Nil THEN PutBytes(b) ELSE bPool
       /\ buf' = [buf EXCEPT ![t] = b]
       /\ retErr' = [retErr EXCEPT ![t] = err]
       /\ pc' = [pc EXCEPT ![t] = AfterSeries(rec[t], err)]
  /\ UNCHANGED <<walVars, closed, segment, fsVars, rPool, ePool, rec, held, last>>

\* lines 112-118 with record.Series = record.Series[:0] after line 117
LogSeriesClearsRecord(t) ==
  /\ pc[t] = "series"
  /\ LET b == EncodeSeries(rec[t], buf[t], FreshId(bPool, BytesHolders)) IN
     \E err \in {Nil} \cup EngineErrs :
       /\ calls' = [calls EXCEPT ![t] = Append(@, EngineCall("Log", b.data, err))]
       /\ walLog' = IF err = Nil THEN Append(walLog, b.data) ELSE walLog
       /\ buf' = [buf EXCEPT ![t] = SeriesBuf(b, err)]
       /\ retErr' = [retErr EXCEPT ![t] = err]
       /\ rec' = [rec EXCEPT ![t].Series = IF err = Nil THEN <<>> ELSE @]
       /\ pc' = [pc EXCEPT ![t] = AfterSeries(rec[t], err)]
  /\ UNCHANGED <<walVars, closed, segment, fsVars, poolVars, held, last>>

\* lines 112-118: encode the series, append them, reset buf
LogSeries(t) ==
  /\ pc[t] = "series"
  /\ LET b == EncodeSeries(rec[t], buf[t], FreshId(bPool, BytesHolders)) IN
     \E err \in {Nil} \cup EngineErrs :
       /\ calls' = [calls EXCEPT ![t] = Append(@, EngineCall("Log", b.data, err))]
       /\ walLog' = IF err = Nil THEN Append(walLog, b.data) ELSE walLog
       /\ buf' = [buf EXCEPT ![t] = SeriesBuf(b, err)]
       /\ retErr' = [retErr EXCEPT ![t] = err]
       /\ pc' = [pc EXCEPT ![t] = AfterSeries(rec[t], err)]
  /\ UNCHANGED <<walVars, closed, segment, fsVars, poolVars, rec, held, last>>

\* lines 119-126: encode the entries, append them
LogEntries(t) ==
  /\ pc[t] = "entries"
  /\ LET b == EncodeEntries(CurrentEntriesRec, rec[t], buf[t],
                            FreshId(bPool, BytesHolders)) IN
     \E err \in {Nil} \cup EngineErrs :
       /\ calls' = [calls EXCEPT ![t] = Append(@, EngineCall("Log", b.data, err))]
       /\ walLog' = IF err = Nil THEN Append(walLog, b.data) ELSE walLog
       /\ buf' = [buf EXCEPT ![t] = b]
       /\ retErr' = [retErr EXCEPT ![t] = err]
       /\ pc' = [pc EXCEPT ![t] = "return"]
  /\ UNCHANGED <<walVars, closed, segment, fsVars, poolVars, rec, held, last>>

\* lines 107-109 without the defer: PutBytes(buf) only before the return nil
\* of line 126
LogReturnPutOnSuccess(t) ==
  /\ pc[t] = "return"
  /\ bPool' = IF retErr[t] = Nil THEN PutBytes(buf[t]) ELSE bPool
  /\ last' = Returned("Log", rec[t], 0, retErr[t], 0, <<>>, calls[t])
  /\ pc' = [pc EXCEPT ![t] = "idle"]
  /\ rec' = [rec EXCEPT ![t] = NilRecord]
  /\ buf' = [buf EXCEPT ![t] = NoSlice]
  /\ calls' = [calls EXCEPT ![t] = <<>>]
  /\ retErr' = [retErr EXCEPT ![t] = Nil]
  /\ UNCHANGED <<walVars, engineVars, fsVars, rPool, ePool, held>>

\* lines 107-109: the deferred PutBytes(buf), then the return
LogReturn(t) ==
  /\ pc[t] = "return"
  /\ bPool' = PutBytes(buf[t])
  /\ last' = Returned("Log", rec[t], 0, retErr[t], 0, <<>>, calls[t])
  /\ pc' = [pc EXCEPT ![t] = "idle"]
  /\ rec' = [rec EXCEPT ![t] = NilRecord]
  /\ buf' = [buf EXCEPT ![t] = NoSlice]
  /\ calls' = [calls EXCEPT ![t] = <<>>]
  /\ retErr' = [retErr EXCEPT ![t] = Nil]
  /\ UNCHANGED <<walVars, engineVars, fsVars, rPool, ePool, held>>

\* ------------------------------------------------- walWrapper, the other calls
\* wlog.WL.Sync, its result returned as it is
wrapperSync(t) ==
  /\ variant = "wrapper"
  /\ pc[t] = "idle"
  /\ \E err \in {Nil} \cup EngineErrs :
       last' = Returned("Sync", NilRecord, 0, err, 0, <<>>,
                        <<EngineCall("Sync", <<>>, err)>>)
  /\ UNCHANGED <<walVars, engineVars, fsVars, poolVars, logVars, held>>

wrapperDir(t) ==
  /\ variant = "wrapper"
  /\ pc[t] = "idle"
  /\ last' = Returned("Dir", NilRecord, 0, Nil, 0, walDir,
                      <<EngineCall("Dir", <<>>, Nil)>>)
  /\ UNCHANGED <<walVars, engineVars, fsVars, poolVars, logVars, held>>

\* lines 91-98 with a return of the Close error in the branch of line 93
wrapperDeleteReturnsCloseErr(t) ==
  /\ variant = "wrapper"
  /\ pc[t] = "idle"
  /\ \E closeErr \in {Nil} \cup EngineErrs, rmErr \in {""} \cup OsErrs :
       /\ closed' = (closed \/ closeErr = Nil)
       /\ IF closeErr # Nil
          THEN /\ UNCHANGED <<dirExists, files>>
               /\ last' = Returned("Delete", NilRecord, 0, closeErr, 0, <<>>,
                                   <<EngineCall("Close", <<>>, closeErr)>>)
          ELSE /\ IF rmErr = ""
                  THEN /\ dirExists' = FALSE
                       /\ files' = {}
                  ELSE /\ dirExists' = dirExists
                       /\ files' \in {files, {}}
               /\ last' = Returned("Delete", NilRecord, 0, OsError(rmErr), 0, <<>>,
                                   <<EngineCall("Close", <<>>, closeErr),
                                     EngineCall("Dir", <<>>, Nil),
                                     FsCall("RemoveAll", <<>>, rmErr)>>)
  /\ UNCHANGED <<walVars, segment, walLog, poolVars, logVars, held>>

\* lines 91-98: Close, a warning when it fails, then os.RemoveAll whose error
\* is the result.  A failed RemoveAll may have removed the entries or nothing.
wrapperDelete(t) ==
  /\ variant = "wrapper"
  /\ pc[t] = "idle"
  /\ \E closeErr \in {Nil} \cup EngineErrs, rmErr \in {""} \cup OsErrs :
       /\ closed' = (closed \/ closeErr = Nil)
       /\ IF rmErr = ""
          THEN /\ dirExists' = FALSE
               /\ files' = {}
          ELSE /\ dirExists' = dirExists
               /\ files' \in {files, {}}
       /\ last' = Returned("Delete", NilRecord, 0, OsError(rmErr), 0, <<>>,
                           <<EngineCall("Close", <<>>, closeErr),
                             EngineCall("Dir", <<>>, Nil),
                             FsCall("RemoveAll", <<>>, rmErr)>>)
  /\ UNCHANGED <<walVars, segment, walLog, poolVars, logVars, held>>

\* lines 144-156 without the test of line 148: a name that does not parse
\* counts as the 0 Atoi returns with its error
RECURSIVE FindSegmentAtoiErrIgnored(_, _)
FindSegmentAtoiErrIgnored(listing, segmentNum) ==
  IF listing = <<>> THEN <<>>
  ELSE IF Atoi(Head(listing)).val = segmentNum THEN Head(listing)
  ELSE FindSegmentAtoiErrIgnored(Tail(listing), segmentNum)

\* lines 144-156 with break in place of continue at line 149: the scan ends at
\* the first name that does not parse
RECURSIVE FindSegmentStopsAtUnparsed(_, _)
FindSegmentStopsAtUnparsed(listing, segmentNum) ==
  IF listing = <<>> THEN <<>>
  ELSE LET fileNameAsNumber == Atoi(Head(listing)) IN
       IF ~fileNameAsNumber.ok THEN <<>>
       ELSE IF fileNameAsNumber.val = segmentNum THEN Head(listing)
       ELSE FindSegmentStopsAtUnparsed(Tail(listing), segmentNum)

\* lines 144-156 without the break of line 154: the last match is kept
RECURSIVE FindSegmentLastMatch(_, _)
FindSegmentLastMatch(listing, segmentNum) ==
  IF listing = <<>> THEN <<>>
  ELSE LET fileNameAsNumber == Atoi(Head(listing))
           later == FindSegmentLastMatch(Tail(listing), segmentNum)
       IN  IF later # <<>> THEN later
           ELSE IF fileNameAsNumber.ok /\ fileNameAsNumber.val = segmentNum
                THEN Head(listing)
                ELSE <<>>

\* lines 144-156: the first name of the listing that parses to segmentNum, ""
\* when there is none
RECURSIVE FindSegment(_, _)
FindSegment(listing, segmentNum) ==
  IF listing = <<>> THEN <<>>
  ELSE LET fileNameAsNumber == Atoi(Head(listing)) IN
       IF ~fileNameAsNumber.ok THEN FindSegment(Tail(listing), segmentNum)
       ELSE IF fileNameAsNumber.val = segmentNum THEN Head(listing)
       ELSE FindSegment(Tail(listing), segmentNum)

\* line 142: the error of a failed listing
ReadDirFailed(e) == Errorf("error reading wal dir")

\* line 158
SegmentNotFound == Errorf("segment not found")

\* line 162: the error of a failed removal
RemoveFailed(e) == ErrorfW("failed deleting segment", e)

\* lines 138-165.  os.ReadDir fails when the directory is gone, and may fail
\* otherwise; os.Remove may fail and then removes nothing.
wrapperDeleteSegment(t, segmentNum) ==
  /\ variant = "wrapper"
  /\ pc[t] = "idle"
  /\ \E readErr \in IF dirExists THEN {""} \cup OsErrs ELSE {"ENOENT"} :
       IF readErr # ""
       THEN /\ last' = Returned("DeleteSegment", NilRecord, segmentNum,
                                ReadDirFailed(readErr), 0, <<>>,
                                <<EngineCall("Dir", <<>>, Nil),
                                  FsCall("ReadDir", <<>>, readErr)>>)
            /\ UNCHANGED files
       ELSE LET segmentName == FindSegment(ReadDir(files), segmentNum) IN
            IF segmentName = <<>>
            THEN /\ last' = Returned("DeleteSegment", NilRecord, segmentNum,
                                     SegmentNotFound, 0, <<>>,
                                     <<EngineCall("Dir", <<>>, Nil),
                                       FsCall("ReadDir", <<>>, "")>>)
                 /\ UNCHANGED files
            ELSE \E rmErr \in {""} \cup OsErrs :
                   /\ files' = IF rmErr = "" THEN files \ {segmentName} ELSE files
                   /\ last' = Returned("DeleteSegment", NilRecord, segmentNum,
                                       IF rmErr = "" THEN Nil ELSE RemoveFailed(rmErr),
                                       0, <<>>,
                                       <<EngineCall("Dir", <<>>, Nil),
                                         FsCall("ReadDir", <<>>, ""),
                                         EngineCall("Dir", <<>>, Nil),
                                         FsCall("Remove", segmentName, rmErr)>>)
  /\ UNCHANGED <<walVars, engineVars, dirExists, poolVars, logVars, held>>

\* wlog.WL.NextSegmentSync: the number of the segment the engine creates, the
\* one after its current segment
NextSegmentSync == segment + 1

\* lines 167-169 with the number of the engine dropped: 0 is returned
wrapperNextSegmentZero(t) ==
  /\ variant = "wrapper"
  /\ pc[t] = "idle"
  /\ segment < MaxSeg
  /\ \E err \in (IF dirExists THEN {Nil} ELSE {}) \cup EngineErrs :
       /\ IF err = Nil
          THEN /\ segment' = NextSegmentSync
               /\ files' = files \cup {SegmentName(NextSegmentSync)}
               /\ issued' = issued \cup {0}
          ELSE UNCHANGED <<segment, files, issued>>
       /\ last' = Returned("NextSegment", NilRecord, 0, err, 0, <<>>,
                           <<EngineCall("NextSegmentSync", <<>>, err)>>)
  /\ UNCHANGED <<variant, walDir, closed, walLog, dirExists, poolVars, logVars, held>>

\* lines 167-169: wlog.WL.NextSegmentSync creates the segment after the current
\* one and returns its number, or fails
wrapperNextSegment(t) ==
  /\ variant = "wrapper"
  /\ pc[t] = "idle"
  /\ segment < MaxSeg
  /\ \E err \in (IF dirExists THEN {Nil} ELSE {}) \cup EngineErrs :
       /\ IF err = Nil
          THEN /\ segment' = NextSegmentSync
               /\ files' = files \cup {SegmentName(NextSegmentSync)}
               /\ issued' = issued \cup {NextSegmentSync}
          ELSE UNCHANGED <<segment, files, issued>>
       /\ last' = Returned("NextSegment", NilRecord, 0, err,
                           IF err = Nil THEN NextSegmentSync ELSE 0, <<>>,
                           <<EngineCall("NextSegmentSync", <<>>, err)>>)
  /\ UNCHANGED <<variant, walDir, closed, walLog, dirExists, poolVars, logVars, held>>

\* another program creates an entry in the WAL directory
ExternalCreate(name) ==
  /\ dirExists
  /\ name \notin files
  /\ files' = files \cup {name}
  /\ UNCHANGED <<walVars, engineVars, dirExists, poolVars, logVars, held, last>>

\* ------------------------------------------------- users of the pools
\* a thread calls GetRecord and holds what it returns
BorrowRecord(t) ==
  /\ pc[t] = "idle"
  /\ held[t].r.id = 0
  /\ \E g \in GetRecord :
       /\ rPool' = g.pool
       /\ held' = [held EXCEPT ![t].r = g.item]
  /\ UNCHANGED <<walVars, engineVars, fsVars, ePool, bPool, logVars, last>>

\* a thread calls PutRecord on the record it holds
ReturnRecord(t) ==
  /\ pc[t] = "idle"
  /\ held[t].r.id # 0
  /\ rPool' = PutRecord(held[t].r)
  /\ held' = [held EXCEPT ![t].r = NoRec]
  /\ UNCHANGED <<walVars, engineVars, fsVars, ePool, bPool, logVars, last>>

BorrowEntries(t) ==
  /\ pc[t] = "idle"
  /\ held[t].e.id = 0
  /\ \E g \in GetEntries :
       /\ ePool' = g.pool
       /\ held' = [held EXCEPT ![t].e = g.item]
  /\ UNCHANGED <<walVars, engineVars, fsVars, rPool, bPool, logVars, last>>

ReturnEntries(t) ==
  /\ pc[t] = "idle"
  /\ held[t].e.id # 0
  /\ ePool' = PutEntries(held[t].e)
  /\ held' = [held EXCEPT ![t].e = NoSlice]
  /\ UNCHANGED <<walVars, engineVars, fsVars, rPool, bPool, logVars, last>>

BorrowBytes(t) ==
  /\ pc[t] = "idle"
  /\ held[t].b.id = 0
  /\ \E g \in GetBytes :
       /\ bPool' = g.pool
       /\ held' = [held EXCEPT ![t].b = g.item]
  /\ UNCHANGED <<walVars, engineVars, fsVars, rPool, ePool, logVars, last>>

ReturnBytes(t) ==
  /\ pc[t] = "idle"
  /\ held[t].b.id # 0
  /\ bPool' = PutBytes(held[t].b)
  /\ held' = [held EXCEPT ![t].b = NoSlice]
  /\ UNCHANGED <<walVars, engineVars, fsVars, rPool, ePool, logVars, last>>

\* the borrower of a record fills it: appends to its two slices
FillRecord(t, s, e) ==
  /\ pc[t] = "idle"
  /\ held[t].r.id # 0
  /\ held[t].r.Series = <<>> /\ held[t].r.RefEntries = <<>>
  /\ s # <<>> \/ e # <<>>
  /\ held' = [held EXCEPT ![t].r =
                [id |-> @.id,
                 Series |-> s, capS |-> Max(@.capS, Len(s)),
                 RefEntries |-> e, capE |-> Max(@.capE, Len(e))]]
  /\ UNCHANGED <<walVars, engineVars, fsVars, poolVars, logVars, last>>

\* the borrower of an entry slice appends an entry to it
FillEntries(t, x) ==
  /\ pc[t] = "idle"
  /\ held[t].e.id # 0
  /\ held[t].e.data = <<>>
  /\ held' = [held EXCEPT ![t].e = GoAppend(@, <<x>>, FreshId(ePool, EntriesHolders))]
  /\ UNCHANGED <<walVars, engineVars, fsVars, poolVars, logVars, last>>

\* the borrower of a byte slice appends a byte to it
FillBytes(t, x) ==
  /\ pc[t] = "idle"
  /\ held[t].b.id # 0
  /\ held[t].b.data = <<>>
  /\ held' = [held EXCEPT ![t].b = GoAppend(@, <<x>>, FreshId(bPool, BytesHolders))]
  /\ UNCHANGED <<walVars, engineVars, fsVars, poolVars, logVars, last>>

\* sync.Pool drops an idle item (garbage collection)
PoolEvict ==
  /\ \/ \E x \in rPool : rPool' = rPool \ {x} /\ UNCHANGED <<ePool, bPool>>
     \/ \E x \in ePool : ePool' = ePool \ {x} /\ UNCHANGED <<rPool, bPool>>
     \/ \E x \in bPool : bPool' = bPool \ {x} /\ UNCHANGED <<rPool, ePool>>
  /\ UNCHANGED <<walVars, engineVars, fsVars, logVars, held, last>>

\* ------------------------------------------------- the WAL interface
Log(t, r) == noopLog(t, r) \/ LogEnter(t, r)
Delete(t) == noopDelete(t) \/ wrapperDelete(t)
Sync(t) == noopSync(t) \/ wrapperSync(t)
Dir(t) == noopDir(t) \/ wrapperDir(t)
DeleteSegment(t, segmentNum) ==
  noopDeleteSegment(t, segmentNum) \/ wrapperDeleteSegment(t, segmentNum)
NextSegment(t) == noopNextSegment(t) \/ wrapperNextSegment(t)

SegmentNums == (0 - 1)..MaxSeg

Next ==
  \/ \E enabled \in BOOLEAN, cfgDir \in CfgDirs, clientName \in ClientNames,
        tenantID \in TenantIDs : newWAL(enabled, cfgDir, clientName, tenantID)
  \/ \E t \in Callers, r \in Records : Log(t, r)
  \/ \E t \in Callers : LogSeries(t)
  \/ \E t \in Callers : LogEntries(t)
  \/ \E t \in Callers : LogReturn(t)
  \/ \E t \in Callers : Delete(t)
  \/ \E t \in Callers : Sync(t)
  \/ \E t \in Callers : Dir(t)
  \/ \E t \in Callers, segmentNum \in SegmentNums : DeleteSegment(t, segmentNum)
  \/ \E t \in Callers : NextSegment(t)

Spec == Init /\ [][Next]_vars

\* The segment manager with a directory that other programs write to as well.
SegNext ==
  \/ \E cfgDir \in CfgDirs, clientName \in ClientNames, tenantID \in TenantIDs :
       newWAL(TRUE, cfgDir, clientName, tenantID)
  \/ \E t \in Callers, segmentNum \in SegmentNums : wrapperDeleteSegment(t, segmentNum)
  \/ \E t \in Callers : wrapperNextSegment(t)
  \/ \E t \in Callers : wrapperDelete(t)
  \/ \E name \in ForeignNames : ExternalCreate(name)

SegSpec == Init /\ [][SegNext]_vars

\* The pools under concurrent use: the threads borrow, fill and give back
\* instances of the three pools and run Log calls at the same time.
PoolRecords == {MkRecord(<<"s1">>, <<>>), MkRecord(<<>>, <<"e1">>)}

PoolNext ==
  \/ newWAL(TRUE, <<"tmp", "wal">>, "agent", "t1")
  \/ \E t \in Threads, r \in PoolRecords : LogEnter(t, r)
  \/ \E t \in Threads : LogSeries(t)
  \/ \E t \in Threads : LogEntries(t)
  \/ \E t \in Threads : LogReturn(t)
  \/ \E t \in Threads : BorrowRecord(t)
  \/ \E t \in Threads : ReturnRecord(t)
  \/ \E t \in Threads : BorrowEntries(t)
  \/ \E t \in Threads : ReturnEntries(t)
  \/ \E t \in Threads : BorrowBytes(t)
  \/ \E t \in Threads : ReturnBytes(t)
  \/ \E t \in Threads : FillRecord(t, <<"s1">>, <<"e1">>)
  \/ \E t \in Threads : FillEntries(t, "e1")
  \/ \E t \in Threads : FillBytes(t, "b1")
  \/ PoolEvict

PoolSpec == Init /\ [][PoolNext]_vars

\* -------------------------------------------------------- the properties
IsPrefix(a, b) == Len(a) <= Len(b) /\ SubSeq(b, 1, Len(a)) = a

\* the payloads of the calls of a trace, in order
Payloads(trace) == [i \in 1..Len(trace) |-> trace[i].arg]

\* the appends Log owes a record: its series if it has any, then its entries
\* if it has any
OwedAppends(r) ==
  (IF Len(r.Series) > 0 THEN <<SeriesPayload(r)>> ELSE <<>>)
    \o (IF Len(r.RefEntries) > 0 THEN <<EntriesPayload(r)>> ELSE <<>>)

HasContent(r) == ~r.isNil /\ (Len(r.Series) > 0 \/ Len(r.RefEntries) > 0)

WrapperLogReturned == variant = "wrapper" /\ last.op = "Log"

\* C1: the engine calls of a Log call of the walWrapper on a non-empty record
\* are appends only, the series payload (if the record has series) before the
\* entries payload (if it has entries): at every point of the call the appends
\* made are a prefix of that sequence, and a call whose appends all succeed has
\* made exactly that sequence, so two appends when both lists are non-empty
\* and one when one of them is.
C1_SeriesThenEntries ==
  /\ \A t \in Threads :
       pc[t] # "idle" =>
         /\ \A i \in 1..Len(calls[t]) : calls[t][i].sys = "engine" /\ calls[t][i].fn = "Log"
         /\ IsPrefix(Payloads(calls[t]), OwedAppends(rec[t]))
  /\ (WrapperLogReturned /\ HasContent(last.rec)) =>
       /\ \A i \in 1..Len(last.trace) : last.trace[i].sys = "engine" /\ last.trace[i].fn = "Log"
       /\ Len(last.trace) >= 1
       /\ IsPrefix(Payloads(last.trace), OwedAppends(last.rec))
       /\ last.err = Nil => Payloads(last.trace) = OwedAppends(last.rec)

\* a Log call on a record with series and entries has returned after two appends
C1_Witness ==
  /\ WrapperLogReturned
  /\ last.err = Nil
  /\ Len(last.rec.Series) > 0 /\ Len(last.rec.RefEntries) > 0
  /\ Payloads(last.trace) = <<<<"series", "s1">>, <<CurrentEntriesRec, "e1">>>>

\* C2: a Log call of the walWrapper on the nil record or on a record without
\* series and without entries returns nil in one step, makes no engine call and
\* leaves the engine (its log included) and the byte pool as they were.
C2_EmptyRecordNoAppend ==
  [][\A t \in Threads, r \in Records :
       (variant = "wrapper" /\ ~HasContent(r) /\ Log(t, r)) =>
         /\ last' = Returned("Log", r, 0, Nil, 0, <<>>, <<>>)
         /\ pc'[t] = "idle"
         /\ UNCHANGED <<engineVars, bPool>>]_vars

\* Log has returned from an empty (not nil) record while the engine log holds
\* payloads
C2_Witness ==
  /\ WrapperLogReturned
  /\ last.rec = MkRecord(<<>>, <<>>)
  /\ last.err = Nil
  /\ walLog # <<>>

\* C9: Log of the walWrapper stops at the first append that fails and returns
\* the engine's error as it is: a failed call made no call after the failed
\* one, which is its last, and never the same payload twice; a call that
\* returns nil had no failed append; and when the entries append fails after
\* the series append succeeded, the series payload is still the last payload
\* of the engine log.
C9_StopAtFirstFailure ==
  /\ \A t \in Threads :
       pc[t] # "idle" =>
         \A i \in 1..Len(calls[t]) :
           calls[t][i].err # Nil => (i = Len(calls[t]) /\ pc[t] = "return" /\ retErr[t] = calls[t][i].err)
  /\ WrapperLogReturned =>
       /\ \A i \in 1..Len(last.trace) :
            last.trace[i].err # Nil => (i = Len(last.trace) /\ last.err = last.trace[i].err)
       /\ last.err # Nil =>
            (Len(last.trace) >= 1 /\ last.trace[Len(last.trace)].err = last.err)
       /\ Len(last.trace) <= Len(OwedAppends(last.rec))
       /\ (last.err # Nil /\ Len(last.trace) = 2) =>
            (walLog # <<>> /\ walLog[Len(walLog)] = SeriesPayload(last.rec))

\* Log has returned the error of the entries append, after the series append
C9_Witness ==
  /\ WrapperLogReturned
  /\ last.err \in EngineErrs
  /\ Len(last.trace) = 2
  /\ last.trace[1].err = Nil

\* this step is a call DeleteSegment(id) of the walWrapper by thread t
DeleteSegmentStep(t, id) ==
  /\ last'.op = "DeleteSegment"
  /\ last'.seg = id
  /\ wrapperDeleteSegment(t, id)

\* the names of the directory that parse to the number id
Matching(id) == {n \in files : Atoi(n).ok /\ Atoi(n).val = id}

\* every filesystem call of a trace succeeded
FsCallsOk(trace) == \A i \in 1..Len(trace) : trace[i].sys = "fs" => trace[i].err = Nil

\* C3: a DeleteSegment(id) of the walWrapper that returns nil has removed one
\* directory entry, one whose name parses to id, and nothing else; a call whose
\* listing and removal do not fail returns nil when a name parses to id; and
\* when the listing succeeds and no name parses to id the directory is as it
\* was and the error is "segment not found".  The directory itself stays.
C3_DeleteSegmentExact ==
  [][\A t \in Threads, id \in SegmentNums :
       DeleteSegmentStep(t, id) =>
         /\ last'.err = Nil => \E n \in Matching(id) : files' = files \ {n}
         /\ (Matching(id) # {} /\ FsCallsOk(last'.trace)) => last'.err = Nil
         /\ (Matching(id) = {} /\ FsCallsOk(last'.trace)) =>
              (files' = files /\ last'.err = Errorf("segment not found"))
         /\ dirExists' = dirExists]_vars

\* DeleteSegment(0) has removed the segment file and left a file of another
\* program in the directory
C3_Witness ==
  /\ last.op = "DeleteSegment"
  /\ last.seg = 0
  /\ last.err = Nil
  /\ files = {<<"a">>}

\* C4: a returned Delete of the walWrapper has called the engine's Close
\* first and os.RemoveAll on the engine's directory after it, whether Close
\* failed or not; its result is the result of RemoveAll, never the error of
\* Close; and when the result is nil no directory and no file is left.
C4_DeleteClosesThenRemoves ==
  (variant = "wrapper" /\ last.op = "Delete") =>
    /\ Len(last.trace) = 3
    /\ last.trace[1].sys = "engine" /\ last.trace[1].fn = "Close"
    /\ last.trace[3].sys = "fs" /\ last.trace[3].fn = "RemoveAll"
    /\ last.err = last.trace[3].err
    /\ last.err \notin EngineErrs
    /\ last.err = Nil => (~dirExists /\ files = {})

\* Delete has returned nil with the directory gone although Close failed
C4_Witness ==
  /\ variant = "wrapper"
  /\ last.op = "Delete"
  /\ last.trace[1].err \in EngineErrs
  /\ last.err = Nil
  /\ ~dirExists

\* C5: on the noopWAL every call returns the nil error, Dir returns the empty
\* path and NextSegment 0, no call reaches the engine or the filesystem, and
\* the engine log, the directory and the pools stay as they were at the start.
C5_NoopDoesNothing ==
  variant = "noop" =>
    /\ last.err = Nil
    /\ last.dir = <<>>
    /\ last.num = 0
    /\ last.trace = <<>>
    /\ walDir = <<>>
    /\ ~closed /\ segment = 0 /\ walLog = <<>>
    /\ ~dirExists /\ files = {}
    /\ rPool = {} /\ ePool = {} /\ bPool = {}
    /\ \A t \in Threads : pc[t] = "idle"

\* DeleteSegment(1) has returned nil on the noopWAL
C5_Witness ==
  /\ variant = "noop"
  /\ last.op = "DeleteSegment"
  /\ last.seg = 1
  /\ last.err = Nil

\* no backing array named in idle (the ids of a pool's idle items) or by() (the
\* ids a thread holds) is idle and held, held by two threads, or held twice by
\* one thread
Exclusive(idle, byLog, byUser) ==
  /\ \A t \in Threads :
       /\ byLog[t] # 0 => byLog[t] \notin idle
       /\ byUser[t] # 0 => byUser[t] \notin idle
       /\ byLog[t] # 0 => byLog[t] # byUser[t]
  /\ \A t, u \in Threads :
       t # u =>
         {byLog[t], byUser[t]} \cap {byLog[u], byUser[u]} \subseteq {0}

\* the idle items of a pool are different arrays
DistinctIdle(pool) == \A x, y \in pool : x.id = y.id => x = y

\* C6: whatever the interleaving of the threads' Get and Put calls and Log
\* calls, an instance a Get has handed out is held by that borrower alone until
\* it is put back: no record, entry slice or byte slice is held by two threads
\* or is idle in its pool while held, and the buffers of two running Log calls
\* are different arrays.
C6_ExclusiveUntilPut ==
  /\ Exclusive({x.id : x \in rPool}, [t \in Threads |-> 0], [t \in Threads |-> held[t].r.id])
  /\ Exclusive({x.id : x \in ePool}, [t \in Threads |-> 0], [t \in Threads |-> held[t].e.id])
  /\ Exclusive({x.id : x \in bPool}, [t \in Threads |-> buf[t].id],
               [t \in Threads |-> held[t].b.id])
  /\ DistinctIdle(rPool) /\ DistinctIdle(ePool) /\ DistinctIdle(bPool)

\* two Log calls are running at once, each with its buffer
C6_Witness ==
  /\ \A t \in Threads : pc[t] # "idle" /\ buf[t].id # 0
  /\ buf["t1"].id # buf["t2"].id

\* x has the capacity of the idle item of pool it is, or newCap when it is new
KeepsCap(pool, x, newCap) ==
  IF \E y \in pool : y.id = x.id
  THEN \E y \in pool : y.id = x.id /\ y.cap = x.cap
  ELSE x.cap = newCap

\* the same for a record and the capacities of its two slices
KeepsCapRecord(pool, x) ==
  IF \E y \in pool : y.id = x.id
  THEN \E y \in pool : y.id = x.id /\ y.capS = x.capS /\ y.capE = x.capE
  ELSE x.capS = 0 /\ x.capE = 0

\* C7: what GetRecord, GetEntries and GetBytes hand out has length zero (a
\* record: no series and no entries) and the capacity the instance had in the
\* pool, or the capacity New gives it: 0, 512 entries, 1024 bytes.  The same
\* holds of the buffer Log takes from the byte pool in the step it starts with.
C7_GetIsEmptyKeepsCap ==
  [][\A t \in Threads :
       /\ BorrowRecord(t) =>
            /\ held'[t].r.Series = <<>> /\ held'[t].r.RefEntries = <<>>
            /\ KeepsCapRecord(rPool, held'[t].r)
       /\ BorrowEntries(t) =>
            /\ held'[t].e.data = <<>>
            /\ KeepsCap(ePool, held'[t].e, EntriesCap)
       /\ BorrowBytes(t) =>
            /\ held'[t].b.data = <<>>
            /\ KeepsCap(bPool, held'[t].b, BytesCap)
       /\ (pc[t] = "idle" /\ pc'[t] # "idle") =>
            /\ buf'[t].data = <<>>
            /\ KeepsCap(bPool, buf'[t], BytesCap)]_vars

\* a thread holds a record that was filled and put back before: it is empty
\* and its slices have the capacity they grew to
C7_Witness ==
  \E t \in Threads :
    /\ held[t].r.id # 0
    /\ held[t].r.Series = <<>> /\ held[t].r.RefEntries = <<>>
    /\ held[t].r.capS = 1 /\ held[t].r.capE = 1

\* C8 as the spec states it: every idle instance of the three pools has
\* length zero
C8_EveryIdleInstanceEmpty ==
  /\ \A x \in rPool : x.Series = <<>> /\ x.RefEntries = <<>>
  /\ \A x \in ePool : x.data = <<>>
  /\ \A x \in bPool : x.data = <<>>

\* C8: PutEntries and PutBytes cut the slice to length zero before it is idle,
\* so every idle entry slice and byte slice has length zero and its capacity;
\* PutRecord stores the record as it is.
C8_IdleSlicesEmpty ==
  /\ [](/\ \A x \in ePool : x.data = <<>> /\ x.cap >= EntriesCap
        /\ \A x \in bPool : x.data = <<>> /\ x.cap >= BytesCap)
  /\ [][\A t \in Threads : ReturnRecord(t) => held[t].r \in rPool']_vars

\* a byte slice that held data is idle, and so is a record with its data
C8_Witness ==
  /\ bPool # {}
  /\ \E t \in Threads : held[t].b.id = 0 /\ pc[t] = "idle"
  /\ \E x \in rPool : x.Series # <<>>

\* C10: DeleteSegment of the walWrapper fails by kind: when the listing or the
\* removal fails, with an error that wraps the error of the operating system;
\* when no name parses to the number, with "segment not found"; and no failed
\* call has removed a file.
C10_FailuresByKind ==
  [][\A t \in Threads, id \in SegmentNums :
       (DeleteSegmentStep(t, id) /\ last'.err # Nil) =>
         /\ files' = files
         /\ IF FsCallsOk(last'.trace)
            THEN last'.err = Errorf("segment not found")
            ELSE \E i \in 1..Len(last'.trace) :
                   /\ last'.trace[i].sys = "fs"
                   /\ last'.trace[i].err # Nil
                   /\ last'.err.cause = last'.trace[i].err.msg]_vars

\* every number of the set is below n
AllBelow(n, nums) == \A m \in nums : m < n

C12_LogKeepsRecord ==
  [][\A t \in Threads :
       /\ \A r \in Records :
            Log(t, r) => IF pc'[t] = "idle" THEN last'.rec = r ELSE rec'[t] = r
       /\ pc[t] # "idle" =>
            IF pc'[t] = "idle" THEN last'.rec = rec[t] ELSE rec'[t] = rec[t]]_vars

\* Log has returned the error of the series append of a record with series
\* and entries
C12_Witness ==
  /\ WrapperLogReturned
  /\ last.rec = MkRecord(<<"s1">>, <<"e1">>)
  /\ last.err \in EngineErrs
  /\ Len(last.trace) = 1

\* the directories newWAL may be asked for: cfg.Dir/clientName/tenantID
ConfiguredDirs ==
  {d \o <<c, n>> : d \in CfgDirs, c \in ClientNames, n \in TenantIDs}

\* C13: the WAL newWAL returns stays the one it is.  With Enabled false it is
\* the noopWAL and no engine is ever constructed; with Enabled true one engine
\* is constructed, at cfg.Dir/clientName/tenantID, and Dir of the walWrapper
\* returns that path whatever was called before, Delete included; when the
\* construction fails its error is returned and there is no WAL to call.
C13_VariantFixedAtConstruction ==
  /\ [][variant # "unset" => (variant' = variant /\ walDir' = walDir)]_vars
  /\ [](/\ last.op # "newWAL" =>
             \A i \in 1..Len(last.trace) : last.trace[i].fn # "NewSize"
        /\ variant = "unset" => last = NoCall
        /\ variant = "noop" =>
             /\ walDir = <<>>
             /\ last.op = "newWAL" => (last.trace = <<>> /\ last.err = Nil)
        /\ variant = "wrapper" =>
             /\ walDir \in ConfiguredDirs
             /\ last.op = "newWAL" =>
                  /\ last.trace = <<EngineCall("NewSize", <<>>, Nil)>>
                  /\ last.err = Nil
                  /\ last.dir = walDir
             /\ last.op = "Dir" => last.dir = walDir
        /\ variant = "failed" =>
             /\ walDir = <<>>
             /\ last.op = "newWAL"
             /\ last.err \in EngineErrs
             /\ last.trace = <<EngineCall("NewSize", <<>>, last.err)>>)

\* Dir returns /tmp/wal/agent/t1 after Delete has closed the engine and
\* removed the directory
C13_Witness ==
  /\ variant = "wrapper"
  /\ last.op = "Dir"
  /\ last.dir = <<"tmp", "wal", "agent", "t1">>
  /\ closed
  /\ ~dirExists

\* the entries whose names Atoi parses, and those it parses to a number >= 0
ParsedNames == {n \in files : Atoi(n).ok}
NonNegativeNames == {n \in files : Atoi(n).ok /\ Atoi(n).val >= 0}

\* this step of DeleteSegment(id) removes no entry outside kept, and does to
\* the directory and returns what a scan of the entries in kept alone gives
OnlyKeptCount(kept, id) ==
  LET found == FindSegment(ReadDir(kept), id) IN
  /\ files \ kept \subseteq files'
  /\ files \ files' \subseteq {found}
  /\ last'.err = Nil <=> (found # <<>> /\ found \notin files')
  /\ FsCallsOk(last'.trace) =>
       (last'.err = Errorf("segment not found") <=> found = <<>>)

\* C14 as the spec states it: an entry whose name is not a base-10 number >= 0
\* is never removed and does not change the result of DeleteSegment
C14_NonNegativeNamesOnly ==
  [][\A t \in Threads, id \in SegmentNums :
       DeleteSegmentStep(t, id) => OnlyKeptCount(NonNegativeNames, id)]_vars

\* C14: an entry whose name strconv.Atoi does not parse (it is not an optional
\* sign and decimal digits) is skipped without error: no DeleteSegment(id)
\* removes it, and the call removes and returns what it would without such
\* entries in the directory.  A name with a sign parses: "-1" is segment -1.
C14_UnparsedNamesSkipped ==
  [][\A t \in Threads, id \in SegmentNums :
       DeleteSegmentStep(t, id) => OnlyKeptCount(ParsedNames, id)]_vars

\* DeleteSegment(1) has removed segment 1 from a directory that lists .a
\* before it and a after it
C14_Witness ==
  /\ last.op = "DeleteSegment"
  /\ last.seg = 1
  /\ last.err = Nil
  /\ {<<".", "a">>, <<"a">>} \subseteq files
  /\ <<"1">> \notin files
  /\ 1 \in issued

\* C15: a DeleteSegment(id) removes at most one entry and adds none; the entry
\* it removes is the first, in the order of the listing (by file name), of the
\* entries whose names parse to id, and the others of them stay.
C15_AtMostFirstMatch ==
  [][\A t \in Threads, id \in SegmentNums :
       DeleteSegmentStep(t, id) =>
         /\ files' \subseteq files
         /\ Cardinality(files \ files') <= 1
         /\ \A n \in files \ files' :
              /\ n \in Matching(id)
              /\ \A m \in Matching(id) \ {n} : NameLess(n, m) /\ m \in files'
              /\ Len(last'.trace) = 4 /\ last'.trace[4].arg = n]_vars

\* DeleteSegment(1) has removed 01 and left 1
C15_Witness ==
  /\ last.op = "DeleteSegment"
  /\ last.seg = 1
  /\ last.err = Nil
  /\ <<"1">> \in files
  /\ <<"0", "1">> \notin files
  /\ last.trace[4].arg = <<"0", "1">>

\* this step takes one buffer for thread t: an idle one out of the byte pool,
\* or a new one when the pool has none
TakesOneBuffer(t) ==
  /\ buf[t] = NoSlice
  /\ buf'[t].id # 0
  /\ IF bPool = {} THEN bPool' = {}
     ELSE \E x \in bPool : bPool' = bPool \ {x} /\ buf'[t].id = x.id

\* this step gives the buffer of thread t back to the byte pool
GivesOneBuffer(t) ==
  /\ buf[t].id # 0
  /\ buf'[t] = NoSlice
  /\ \E x \in bPool' : x.id = buf[t].id /\ x \notin bPool /\ bPool' = bPool \cup {x}

\* C16: a Log call of the walWrapper on a record with content takes one
\* buffer when it starts, takes and gives none while it runs, and gives one
\* back in the step it returns with, whether it returns nil, the error of the
\* series append or the error of the entries append; a call on the nil record
\* or on an empty record takes and gives none.
C16_BufferBalanced ==
  [][\A t \in Threads :
       /\ \A r \in Records :
            (variant = "wrapper" /\ Log(t, r)) =>
              IF HasContent(r)
              THEN TakesOneBuffer(t) /\ pc'[t] # "idle"
              ELSE bPool' = bPool /\ buf' = buf /\ pc'[t] = "idle"
       /\ (pc[t] # "idle" /\ pc'[t] # "idle") =>
            (bPool' = bPool /\ buf'[t].id # 0)
       /\ (pc[t] # "idle" /\ pc'[t] = "idle") =>
            (GivesOneBuffer(t) /\ last'.op = "Log")]_vars

\* Log has returned the error of the entries append and its buffer is idle
\* in the pool
C16_Witness ==
  /\ WrapperLogReturned
  /\ last.err \in EngineErrs
  /\ Len(last.trace) = 2
  /\ Cardinality(bPool) = 1
  /\ \A t \in Threads : buf[t] = NoSlice

====
